---- MODULE Spec2Model ----
(***************************************************************************)
(* A model of python-duckdb/snomed-duckdb.py: the RF2 file-name filter,    *)
(* the table-name normalisation chain, the ordering of the load plan       *)
(* (get_table_details) and the load orchestration of the __main__ block.   *)
(*                                                                         *)
(* File names, directory names and table names are strings; TLC applies    *)
(* Len, SubSeq and \o to strings, so the regular expressions and the       *)
(* substitutions are computed character by character.                      *)
(***************************************************************************)
EXTENDS Naturals, Sequences, FiniteSets, TLC

VARIABLES
    pc,               \* position of the run in the script
    package_location, \* args.package, later the extracted directory
    session,          \* duckdb_client.conn: "none", "open" or "closed"
    fs,               \* what os.walk yields below <package>/<release type>
    release_type,     \* the loop variable of line 266 (ReleaseType.value)
    table_details,    \* the load plan returned by get_table_details
    idx,              \* number of plan entries already handed to import_text_file
    file_imported,    \* the flag of lines 264 and 274
    attempted,        \* history: the entries imported for the current plan
    outcomes,         \* history: the outcome of each of those imports
    ddl_applied,      \* history: release types whose DDL script was executed
    validated,        \* history: release types whose validation script was executed
    result,           \* what execute_sql_file returned to validate_targetcomponentid
    violation,        \* history: the release type whose validation returned rows
    cause,            \* why the run left its normal course or ended, or "none"
    ui_started,       \* history: start_ui was called
    usage_printed     \* history: parser.print_help was called

vars == <<pc, package_location, session, fs, release_type, table_details, idx,
          file_imported, attempted, outcomes, ddl_applied, validated, result,
          violation, cause, ui_started, usage_printed>>

(***************************************************************************)
(* Characters and strings                                                  *)
(***************************************************************************)
Ch(s, i) == SubSeq(s, i, i)

Chars(s) == { Ch(s, i) : i \in 1..Len(s) }

UPPER == "ABCDEFGHIJKLMNOPQRSTUVWXYZ"

LOWER == "abcdefghijklmnopqrstuvwxyz"

DIGITS == "0123456789"

\* the characters that occur in the modelled names, in code-point order
ASCII == "-./" \o DIGITS \o UPPER \o "_" \o LOWER

\* \d
Digit == Chars(DIGITS)

\* \w
Word == Chars(UPPER) \cup Chars(LOWER) \cup Digit \cup {"_"}

Ord(c) == CHOOSE i \in 1..Len(ASCII) : Ch(ASCII, i) = c

\* str < str: lexicographic by code point
RECURSIVE StrLess(_, _)
StrLess(a, b) ==
    IF b = "" THEN FALSE
    ELSE IF a = "" THEN TRUE
    ELSE IF Head(a) = Head(b) THEN StrLess(Tail(a), Tail(b))
    ELSE Ord(Head(a)) < Ord(Head(b))

\* sub in s
Contains(sub, s) ==
    \E i \in 1..(Len(s) + 1) :
        /\ i + Len(sub) - 1 <= Len(s)
        /\ SubSeq(s, i, i + Len(sub) - 1) = sub

\* s.endswith(suffix)
EndsWith(s, suffix) ==
    /\ Len(suffix) <= Len(s)
    /\ SubSeq(s, Len(s) - Len(suffix) + 1, Len(s)) = suffix

LowerCh(c) ==
    IF c \in Chars(UPPER)
    THEN Ch(LOWER, CHOOSE i \in 1..Len(UPPER) : Ch(UPPER, i) = c)
    ELSE c

\* str.lower()
RECURSIVE lower(_)
lower(s) == IF s = "" THEN "" ELSE LowerCh(Head(s)) \o lower(Tail(s))

\* an optional value: <<>> is Python's None, <<v>> is the value v
None == <<>>

Some(v) == <<v>>

(***************************************************************************)
(* ReleaseType                                                             *)
(***************************************************************************)
ReleaseTypes == {"Full", "Snapshot", "Delta"}

short_code(rt) == lower(Ch(rt, 1))

(***************************************************************************)
(* filter_regex: the pieces of lines 87-100.  A partial match records the  *)
(* position of the next unread character, the capture groups, and the      *)
(* lengths the backtracking order of re depends on.  Each piece maps the   *)
(* set of partial matches that reach it to those that leave it.            *)
(***************************************************************************)
RefsetIdMin == 6

RefsetIdMax == 18

LanguageMin == 2

LanguageMax == 8

NamespaceDigits == 7

VersionDateDigits == 8

Start == [pos |-> 1, x |-> 0, g1 |-> None, g2 |-> None, id |-> "",
          g3 |-> None, g4 |-> None, g5 |-> None]

\* the character at position p, "" past the end
At(f, p) == IF p <= Len(f) THEN Ch(f, p) ELSE ""

\* length of the longest run of characters of class C that starts at p
RECURSIVE RunLen(_, _, _)
RunLen(f, p, C) == IF At(f, p) \in C THEN 1 + RunLen(f, p + 1, C) ELSE 0

\* a literal
Lit(lit, f, M) ==
    { [m EXCEPT !.pos = @ + Len(lit)] :
        m \in { o \in M : /\ o.pos + Len(lit) - 1 <= Len(f)
                          /\ SubSeq(f, o.pos, o.pos + Len(lit) - 1) = lit } }

\* C{lo,hi}
Rep(C, lo, hi, f, M) ==
    UNION { { [m EXCEPT !.pos = @ + k] :
                k \in { j \in lo..hi : j <= RunLen(f, m.pos, C) } } : m \in M }

\* x?(sct|der)2
file_type(f, M) ==
    LET X == M \cup { [m EXCEPT !.x = 1] : m \in Lit("x", f, M) }
        G == UNION { { [m EXCEPT !.g1 = Some(k)] : m \in Lit(k, f, X) } :
                     k \in {"sct", "der"} }
    IN  Lit("2", f, G)

\* (\w+)
content_type(f, M) ==
    UNION { { [m EXCEPT !.pos = @ + k, !.g2 = Some(SubSeq(f, m.pos, m.pos + k - 1))] :
                k \in 1..RunLen(f, m.pos, Word) } : m \in M }

\* (?:\d{6,18})?
refset_id(f, M) ==
    M \cup UNION { { [m EXCEPT !.pos = @ + k, !.id = SubSeq(f, m.pos, m.pos + k - 1)] :
                       k \in { j \in RefsetIdMin..RefsetIdMax :
                                 j <= RunLen(f, m.pos, Digit) } } : m \in M }

\* (\w+)?
summary(f, M) ==
    M \cup UNION { { [m EXCEPT !.pos = @ + k, !.g3 = Some(SubSeq(f, m.pos, m.pos + k - 1))] :
                       k \in 1..RunLen(f, m.pos, Word) } : m \in M }

\* (-[a-z-]{2,8})?
language_code(f, M) ==
    M \cup UNION { { [m EXCEPT !.pos = @ + 1 + k, !.g4 = Some(SubSeq(f, m.pos, m.pos + k))] :
                       k \in { j \in LanguageMin..LanguageMax :
                                 j <= RunLen(f, m.pos + 1, Chars(LOWER) \cup {"-"}) } } :
                   m \in { o \in M : At(f, o.pos) = "-" } }

\* {refset_id}{summary}{rt}{language_code}
content_sub_type(rt, f, M) ==
    language_code(f, Lit(rt, f, summary(f, refset_id(f, M))))

\* (?:(INT|[A-Z]{2})\d{7})
country_namespace(f, M) ==
    LET I == { [m EXCEPT !.g5 = Some("INT")] : m \in Lit("INT", f, M) }
        A == { [m EXCEPT !.g5 = Some(SubSeq(f, m.pos - 2, m.pos - 1))] :
                 m \in Rep(Chars(UPPER), 2, 2, f, M) }
    IN  Rep(Digit, NamespaceDigits, NamespaceDigits, f, I \cup A)

\* \d{8}
version_date(f, M) == Rep(Digit, VersionDateDigits, VersionDateDigits, f, M)

\* txt
file_ext(f, M) == Lit("txt", f, M)

\* ^{file_type}_{content_type}_{content_sub_type}_{country_namespace}_{version_date}\.{file_ext}$
\* : every way the whole of f matches
filter_regex(rt, f) ==
    LET a == Lit("_", f, file_type(f, {Start}))
        b == Lit("_", f, content_type(f, a))
        c == Lit("_", f, content_sub_type(rt, f, b))
        d == Lit("_", f, country_namespace(f, c))
        e == file_ext(f, Lit(".", f, version_date(f, d)))
    IN  { m \in e : m.pos = Len(f) + 1 }

LenOpt(o) == IF o = None THEN 0 ELSE Len(o[1])

\* the choices of a match in the order re tries them: every quantifier is
\* greedy, so the longer (or present) alternative is tried first
Choices(m) == <<m.x, LenOpt(m.g2), Len(m.id), LenOpt(m.g3), LenOpt(m.g4), LenOpt(m.g5)>>

TriedBefore(a, b) ==
    \E i \in 1..Len(a) : a[i] > b[i] /\ \A j \in 1..(i - 1) : a[j] = b[j]

\* re.match(filter_regex, filename): None, or the first match re finds
re_match(rt, f) ==
    LET M == filter_regex(rt, f)
    IN  IF M = {} THEN None
        ELSE Some(CHOOSE m \in M :
                    \A o \in M \ {m} : TriedBefore(Choices(m), Choices(o)))

(***************************************************************************)
(* The table-name normalisation chain (lines 105-145)                      *)
(***************************************************************************)
\* the outcome of a call: a returned value, or an exception that propagates
Return(v) == [val |-> v]

Raise(e) == [exc |-> e]

Raises(r) == "exc" \in DOMAIN r

\* extract_strategy(match): group 3 + "refset_" with group 3 None is a TypeError
extract_strategy(rt, m) ==
    IF m.g1 = Some("sct") /\ m.g3 # Some("OWLExpression")
    THEN Return(m.g2[1] \o "_" \o short_code(rt))
    ELSE IF m.g3 = None
         THEN Raise("TypeError")
         ELSE Return(m.g3[1] \o "refset_" \o short_code(rt))

\* a pattern made of literal groups, and a replacement template made of
\* literals <<"s", text>> and group references <<"g", k>>
PatternText(groups) ==
    LET RECURSIVE Cat(_)
        Cat(q) == IF q = <<>> THEN "" ELSE Head(q) \o Cat(Tail(q))
    IN  Cat(groups)

Expand(groups, template) ==
    LET RECURSIVE Exp(_)
        Exp(q) == IF q = <<>> THEN ""
                  ELSE (IF Head(q)[1] = "g" THEN groups[Head(q)[2]] ELSE Head(q)[2])
                       \o Exp(Tail(q))
    IN  Exp(template)

\* re.sub(pattern, replacement, s) for such a pattern: every non-overlapping
\* occurrence, leftmost first, case-sensitive
RECURSIVE re_sub(_, _, _)
re_sub(groups, template, s) ==
    LET pat == PatternText(groups)
    IN  IF Len(s) < Len(pat) THEN s
        ELSE IF SubSeq(s, 1, Len(pat)) = pat
             THEN Expand(groups, template)
                  \o re_sub(groups, template, SubSeq(s, Len(pat) + 1, Len(s)))
             ELSE Head(s) \o re_sub(groups, template, Tail(s))

\* a variant that also drops the short code
drop_code_from_refsetdescriptor(rt) ==
    << <<"RefsetDescriptorrefset_" \o short_code(rt)>>,
       << <<"s", "RefsetDescriptor">> >> >>

drop_suffix_from_refsetdescriptor(rt) ==
    << <<"RefsetDescriptorrefset_" \o short_code(rt)>>,
       << <<"s", "RefsetDescriptor_" \o short_code(rt)>> >> >>

\* a variant whose pattern has the lower-case "refset" of the base name
drop_suffix_from_simple_lowercase == << <<"Simple", "refset">>, << <<"g", 1>> >> >>

drop_suffix_from_simplerefset == << <<"Simple", "Refset">>, << <<"g", 1>> >> >>

drop_suffix_from_associationreference ==
    << <<"Association", "Reference">>, << <<"g", 1>> >> >>

shorten_language_prefix == << <<"Language">>, << <<"s", "Lang">> >> >>

shorten_referenceset == << <<"ReferenceSet">>, <<>> >>

add_underscore_to_relationship_concrete_values ==
    << <<"Relationship", "Concrete", "Values">>,
       << <<"g", 1>>, <<"s", "_">>, <<"g", 2>>, <<"s", "_">>, <<"g", 3>> >> >>

add_underscore_to_stated_relationship ==
    << <<"Stated", "Relationship">>, << <<"g", 1>>, <<"s", "_">>, <<"g", 2>> >> >>

\* regex_transformations after its first entry, extract_content_or_summary,
\* which normalized_filename applies itself
regex_transformations(rt) ==
    << drop_suffix_from_refsetdescriptor(rt),
       drop_suffix_from_simplerefset,
       drop_suffix_from_associationreference,
       shorten_language_prefix,
       shorten_referenceset,
       add_underscore_to_relationship_concrete_values,
       add_underscore_to_stated_relationship >>

\* lines 151-155 for a file name that matched with m: re.sub(filter_regex,
\* extract_strategy, filename) replaces the whole name (the pattern is
\* anchored at both ends), then the other substitutions run in list order
normalized_filename(rt, m) ==
    LET RECURSIVE Chain(_, _)
        Chain(q, s) == IF q = <<>> THEN s
                       ELSE Chain(Tail(q), re_sub(Head(q)[1], Head(q)[2], s))
        base == extract_strategy(rt, m)
    IN  IF Raises(base) THEN base
        ELSE Return(Chain(regex_transformations(rt), base.val))

(***************************************************************************)
(* The load plan (lines 147-169).  walk is what os.walk yields: the files  *)
(* as <<dirname, filename>>, in the order of the traversal.                *)
(***************************************************************************)
\* sort_key
sort_key(x) == <<~Contains("sct2", x[2]), ~Contains("concept", x[1]), x[1]>>

\* tuple comparison of two keys: False < True, then str <
KeyLess(a, b) ==
    \/ ~a[1] /\ b[1]
    \/ a[1] = b[1] /\ ~a[2] /\ b[2]
    \/ a[1] = b[1] /\ a[2] = b[2] /\ StrLess(a[3], b[3])

\* list.sort(key=sort_key): stable, ascending
RECURSIVE sort(_)
sort(l) ==
    LET RECURSIVE Insert(_, _)
        Insert(e, q) ==
            IF q = <<>> THEN <<e>>
            ELSE IF KeyLess(sort_key(e), sort_key(Head(q)))
                 THEN <<e>> \o q
                 ELSE <<Head(q)>> \o Insert(e, Tail(q))
    IN  IF l = <<>> THEN <<>>
        ELSE Insert(l[Len(l)], sort(SubSeq(l, 1, Len(l) - 1)))

\* the loop of lines 148-158: the entries appended so far, or the exception
RECURSIVE normalized_table_names(_, _)
normalized_table_names(walk, rt) ==
    IF walk = <<>> THEN Return(<<>>)
    ELSE LET rest == normalized_table_names(SubSeq(walk, 1, Len(walk) - 1), rt)
             dirname == walk[Len(walk)][1]
             filename == walk[Len(walk)][2]
             m == re_match(rt, filename)
         IN  IF Raises(rest) THEN rest
             ELSE IF m = None THEN rest
             ELSE LET n == normalized_filename(rt, m[1])
                  IN  IF Raises(n) THEN n
                      ELSE Return(Append(rest.val, <<lower(n.val), dirname, filename>>))

get_table_details(walk, rt) ==
    LET names == normalized_table_names(walk, rt)
    IN  IF Raises(names) THEN names ELSE Return(sort(names.val))

(***************************************************************************)
(* The inputs: package paths, the file system and the files of a release   *)
(***************************************************************************)
\* bounds of the model
MaxPlan == 2

MaxFiles == 2

MaxRows == 2

\* values of --package, and what exists on disk
ExistingDirs == {"pkg", "pkg_sct2", "tmp/pkg"}

ExistingFiles == {"rel.zip"}

PackagePaths == {"", "missing", "gone.zip", "rel.zip", "pkg"}

\* directories a release is scanned from
ReleaseDirs == {"pkg", "pkg_sct2"}

\* os.path.isdir, os.path.isfile
isdir(p) == p \in ExistingDirs

isfile(p) == p \in ExistingFiles

\* sub-directories of <package>/<release type>
SubDirs == {"/Terminology", "/Refset"}

\* file names put together from the segments of the naming convention
Kinds == {"sct2", "der2", "xder2"}

ContentTypes == {"Concept", "Refset"}

Summaries == {"", "Simple", "RefsetDescriptor", "OWLExpression", "AConcept", "734138000"}

Languages == {"", "-en"}

Namespaces == {"INT", "US1000124"}

VersionDate == "20240101"

FileName(kind, ct, sum, label, lang, ns) ==
    kind \o "_" \o ct \o "_" \o sum \o label \o lang \o "_" \o ns \o "_"
         \o VersionDate \o ".txt"

FileNames ==
    { FileName(k, c, s, l, g, n) :
        k \in Kinds, c \in ContentTypes, s \in Summaries, l \in ReleaseTypes,
        g \in Languages, n \in Namespaces }

\* the files of the plans with several entries
PlanFiles(rt) ==
    { FileName("sct2", "Concept", "", rt, "", "US1000124"),
      FileName("der2", "Refset", "Simple", rt, "", "US1000124"),
      FileName("der2", "Refset", "AConcept", rt, "", "US1000124") }

\* the files of the packages the script is run on, in the order os.walk
\* yields them; the third one has no summary
OrchFiles(rt) ==
    << <<"/Refset", FileName("der2", "Refset", "Simple", rt, "", "US1000124")>>,
       <<"/Terminology", FileName("sct2", "Description", "", rt, "-en", "US1000124")>>,
       <<"/Refset", FileName("der2", "Refset", "", rt, "", "US1000124")>>,
       <<"/Terminology", FileName("sct2", "Concept", "", rt, "", "US1000124")>> >>

\* the sub-sequences of q with at most n elements
SubSeqsOf(q, n) ==
    { SelectSeq(q, LAMBDA e : e \in S) :
        S \in { T \in SUBSET { q[i] : i \in 1..Len(q) } : Cardinality(T) <= n } }

\* the sequences of between lo and hi distinct elements of S
SeqsOf(S, lo, hi) ==
    UNION { { q \in [1..n -> S] : \A i, j \in 1..n : i # j => q[i] # q[j] } :
            n \in lo..hi }

\* os.walk(os.path.join(release_dir, release_type.value)): tree gives, for
\* each release type, the files below it as <<sub-directory, filename>>
os_walk(tree, release_dir, rt) ==
    IF isdir(release_dir)
    THEN [i \in 1..Len(tree[rt]) |->
            <<release_dir \o "/" \o rt \o tree[rt][i][1], tree[rt][i][2]>>]
    ELSE <<>>

NoFiles == [r \in ReleaseTypes |-> <<>>]

(***************************************************************************)
(* The collaborators and the small functions of the script                 *)
(***************************************************************************)
\* validate_package_path
validate_package_path(package_path) ==
    IF ~(package_path # "" \/ isdir(package_path) \/ isfile(package_path))
    THEN Raise("ValueError")
    ELSE Return(None)

\* what conn.execute does with a COPY statement
ImportOutcomes == {"Imported", "FormatRejected", "OtherFailure"}

\* a variant that handles only duckdb.CatalogException
import_text_file_catalog_only(outcome) ==
    IF outcome = "Imported" THEN Return("INFO_IMPORT_SUCCESS")
    ELSE IF outcome = "FormatRejected" THEN Return("ERROR_UNRECOGNISED_FORMAT")
    ELSE Raise("Exception")

\* import_text_file: the log line it writes; no outcome leaves it as an
\* exception
import_text_file(outcome) ==
    IF outcome = "Imported" THEN Return("INFO_IMPORT_SUCCESS")
    ELSE IF outcome = "FormatRejected" THEN Return("ERROR_UNRECOGNISED_FORMAT")
    ELSE Return("ERROR_IMPORT_FAILURE")

\* what conn.execute does with a script: an exception, or rows
RowLists == UNION { [1..n -> {"row"}] : n \in 0..MaxRows }

SqlOutcomes == {Raise("Exception")} \cup { Return(rows) : rows \in RowLists }

\* execute_sql_file: the rows, or None after logging the exception
execute_sql_file(outcome) ==
    IF Raises(outcome) THEN None ELSE Some(outcome.val)

\* a variant that logs the rows and does not quit
validate_without_quit(res) == FALSE

\* a variant that also quits when the script could not be executed
validate_quits_on_none(res) == res = None \/ Len(res[1]) > 0

\* validate_targetcomponentid: whether it calls quit()
validate_targetcomponentid(res) == res # None /\ Len(res[1]) > 0

\* a variant that leaves the connection as it is
close_skipped(conn) == conn

\* DuckDBClient.close
close(conn) == "closed"

\* the loop of line 266
Order == <<"Full", "Snapshot">>

(***************************************************************************)
(* The run of the script (lines 245-282)                                   *)
(***************************************************************************)
IsLast(rt) == rt = Order[Len(Order)]

NextType(rt) == Order[(CHOOSE i \in 1..Len(Order) : Order[i] = rt) + 1]

\* the packages a run may be given: the files below Full and below Snapshot
Packages ==
    { [r \in ReleaseTypes |->
         IF r = "Full" THEN a ELSE IF r = "Snapshot" THEN b ELSE <<>>] :
      a \in SubSeqsOf(OrchFiles("Full"), MaxPlan),
      b \in SubSeqsOf(OrchFiles("Snapshot"), MaxPlan) }

Quiet ==
    /\ session = "none"
    /\ table_details = <<>>
    /\ idx = 0
    /\ file_imported = FALSE
    /\ attempted = <<>>
    /\ outcomes = <<>>
    /\ ddl_applied = {}
    /\ validated = {}
    /\ result = None
    /\ violation = "none"
    /\ cause = "none"
    /\ ui_started = FALSE
    /\ usage_printed = FALSE

Init ==
    /\ pc = "start"
    /\ package_location \in PackagePaths
    /\ fs \in IF isdir(package_location) \/ isfile(package_location)
              THEN Packages ELSE {NoFiles}
    /\ release_type = Order[1]
    /\ Quiet

\* lines 246-251
ValidatePackagePath ==
    /\ pc = "start"
    /\ IF Raises(validate_package_path(package_location))
       THEN /\ usage_printed' = TRUE
            /\ cause' = "invalid_package"
            /\ pc' = "exited"
       ELSE /\ pc' = "tempdir"
            /\ UNCHANGED <<usage_printed, cause>>
    /\ UNCHANGED <<package_location, session, fs, release_type, table_details, idx,
                   file_imported, attempted, outcomes, ddl_applied, validated,
                   result, violation, ui_started>>

\* lines 253-261: a zip is extracted and its first entry becomes the package
OpenPackage ==
    /\ pc = "tempdir"
    /\ IF EndsWith(package_location, ".zip")
       THEN IF ~isfile(package_location)
            THEN /\ cause' = "zip_not_found"
                 /\ pc' = "exited"
                 /\ UNCHANGED package_location
            ELSE /\ package_location' = "tmp" \o "/" \o "pkg"
                 /\ pc' = "connect"
                 /\ UNCHANGED cause
       ELSE /\ pc' = "connect"
            /\ UNCHANGED <<package_location, cause>>
    /\ UNCHANGED <<session, fs, release_type, table_details, idx, file_imported,
                   attempted, outcomes, ddl_applied, validated, result, violation,
                   ui_started, usage_printed>>

\* lines 263-264: DuckDBClient(DB_FILE); duckdb.connect may raise, the
\* failure of the UI extension is logged
Connect ==
    /\ pc = "connect"
    /\ \E connected \in BOOLEAN :
         IF connected
         THEN /\ session' = "open"
              /\ file_imported' = FALSE
              /\ pc' = "loop"
              /\ UNCHANGED cause
         ELSE /\ cause' = "connect_error"
              /\ pc' = "exited"
              /\ UNCHANGED <<session, file_imported>>
    /\ UNCHANGED <<package_location, fs, release_type, table_details, idx,
                   attempted, outcomes, ddl_applied, validated, result, violation,
                   ui_started, usage_printed>>

\* lines 266-269: the plan of the next release type; an empty plan is
\* skipped with a warning, an exception leaves the loop
GetTableDetails ==
    /\ pc = "loop"
    /\ LET r == get_table_details(os_walk(fs, package_location, release_type),
                                  release_type)
       IN  IF Raises(r)
           THEN /\ cause' = r.exc
                /\ pc' = "finally"
                /\ UNCHANGED <<release_type, table_details, idx, attempted, outcomes>>
           ELSE /\ table_details' = r.val
                /\ idx' = 0
                /\ attempted' = <<>>
                /\ outcomes' = <<>>
                /\ UNCHANGED cause
                /\ IF r.val # <<>>
                   THEN pc' = "ddl" /\ UNCHANGED release_type
                   ELSE IF IsLast(release_type)
                        THEN pc' = "after" /\ UNCHANGED release_type
                        ELSE pc' = "loop" /\ release_type' = NextType(release_type)
    /\ UNCHANGED <<package_location, session, fs, file_imported, ddl_applied,
                   validated, result, violation, ui_started, usage_printed>>

\* line 271: execute_ddl; execute_sql_file logs a failure and goes on
ExecuteDdl ==
    /\ pc = "ddl"
    /\ \E o \in SqlOutcomes :
         /\ execute_sql_file(o) \in {None} \cup { Some(rows) : rows \in RowLists }
         /\ ddl_applied' = ddl_applied \cup {release_type}
    /\ pc' = "import"
    /\ UNCHANGED <<package_location, session, fs, release_type, table_details, idx,
                   file_imported, attempted, outcomes, validated, result, violation,
                   cause, ui_started, usage_printed>>

\* lines 272-273: one iteration of the import loop
ImportTextFile ==
    /\ pc = "import"
    /\ idx < Len(table_details)
    /\ \E o \in ImportOutcomes :
         LET r == import_text_file(o)
         IN  /\ attempted' = Append(attempted, table_details[idx + 1])
             /\ outcomes' = Append(outcomes, o)
             /\ IF Raises(r)
                THEN cause' = r.exc /\ pc' = "finally" /\ UNCHANGED idx
                ELSE idx' = idx + 1 /\ UNCHANGED <<pc, cause>>
    /\ UNCHANGED <<package_location, session, fs, release_type, table_details,
                   file_imported, ddl_applied, validated, result, violation,
                   ui_started, usage_printed>>

\* line 274, once the import loop is over
EndImports ==
    /\ pc = "import"
    /\ idx = Len(table_details)
    /\ file_imported' = TRUE
    /\ pc' = "validate"
    /\ UNCHANGED <<package_location, session, fs, release_type, table_details, idx,
                   attempted, outcomes, ddl_applied, validated, result, violation,
                   cause, ui_started, usage_printed>>

\* line 275 and the end of the loop body: validate_targetcomponentid
Validate ==
    /\ pc = "validate"
    /\ \E o \in SqlOutcomes :
         LET res == execute_sql_file(o)
         IN  /\ result' = res
             /\ validated' = validated \cup {release_type}
             /\ violation' = IF ~Raises(o) /\ Len(o.val) >= 1
                             THEN release_type ELSE violation
             /\ IF validate_targetcomponentid(res)
                THEN /\ cause' = "fatal_validation"
                     /\ pc' = "finally"
                     /\ UNCHANGED release_type
                ELSE /\ UNCHANGED cause
                     /\ IF IsLast(release_type)
                        THEN pc' = "after" /\ UNCHANGED release_type
                        ELSE pc' = "loop" /\ release_type' = NextType(release_type)
    /\ UNCHANGED <<package_location, session, fs, table_details, idx, file_imported,
                   attempted, outcomes, ddl_applied, ui_started, usage_printed>>

\* lines 277-280: start_ui logs its own failure; input() returns or raises
StartUi ==
    /\ pc = "after"
    /\ IF file_imported
       THEN /\ ui_started' = TRUE
            /\ \E answer \in {"enter", "EOFError"} :
                 cause' = IF answer = "enter" THEN "completed" ELSE answer
       ELSE /\ cause' = "nothing_imported"
            /\ UNCHANGED ui_started
    /\ pc' = "finally"
    /\ UNCHANGED <<package_location, session, fs, release_type, table_details, idx,
                   file_imported, attempted, outcomes, ddl_applied, validated,
                   result, violation, usage_printed>>

\* lines 281-282
Finally ==
    /\ pc = "finally"
    /\ session' = close(session)
    /\ pc' = "exited"
    /\ UNCHANGED <<package_location, fs, release_type, table_details, idx,
                   file_imported, attempted, outcomes, ddl_applied, validated,
                   result, violation, cause, ui_started, usage_printed>>

Next ==
    \/ ValidatePackagePath
    \/ OpenPackage
    \/ Connect
    \/ GetTableDetails
    \/ ExecuteDdl
    \/ ImportTextFile
    \/ EndImports
    \/ Validate
    \/ StartUi
    \/ Finally

Spec == Init /\ [][Next]_vars

(***************************************************************************)
(* get_table_details on its own: one call on a tree and a release type     *)
(***************************************************************************)
ScanWalks(rt) ==
    { <<e>> : e \in SubDirs \X FileNames }
        \cup SeqsOf(SubDirs \X PlanFiles(rt), 2, MaxFiles)

InitScan ==
    /\ pc = "scan"
    /\ package_location \in ReleaseDirs
    /\ release_type \in ReleaseTypes
    /\ fs \in { [r \in ReleaseTypes |-> IF r = release_type THEN w ELSE <<>>] :
                w \in ScanWalks(release_type) }
    /\ Quiet

Scan ==
    /\ pc = "scan"
    /\ LET r == get_table_details(os_walk(fs, package_location, release_type),
                                  release_type)
       IN  IF Raises(r)
           THEN cause' = r.exc /\ UNCHANGED table_details
           ELSE table_details' = r.val /\ UNCHANGED cause
    /\ pc' = "scanned"
    /\ UNCHANGED <<package_location, session, fs, release_type, idx, file_imported,
                   attempted, outcomes, ddl_applied, validated, result, violation,
                   ui_started, usage_printed>>

NextScan == Scan

SpecScan == InitScan /\ [][NextScan]_vars

(***************************************************************************)
(* Properties                                                              *)
(***************************************************************************)
Range(q) == { q[i] : i \in 1..Len(q) }

\* the files get_table_details was given
Walk == os_walk(fs, package_location, release_type)

\* f is accepted, comes from a der file and has the summary capture s
IsRefsetWithSummary(f, s) ==
    LET m == re_match(release_type, f)
    IN  m # None /\ m[1].g1 = Some("der") /\ m[1].g3 = s

\* the entry was produced from a terminology file with content type Concept
IsConceptEntry(e) ==
    LET m == re_match(release_type, e[3])
    IN  /\ m # None
        /\ m[1].g1 = Some("sct")
        /\ m[1].g2 = Some("Concept")
        /\ m[1].g3 # Some("OWLExpression")

\* the entry was produced from a reference-set (derivative) file
IsRefsetEntry(e) ==
    LET m == re_match(release_type, e[3])
    IN  m # None /\ (m[1].g1 = Some("der") \/ m[1].g3 = Some("OWLExpression"))

\* the release types the loop reaches after rt
Later(rt) ==
    { Order[i] : i \in { j \in 1..Len(Order) :
                           \E k \in 1..(j - 1) : Order[k] = rt } }

\* C1: once the validation of a release type has returned rows the run is on
\* its way out (the finally clause or the end): the loop is still at that
\* release type, no later release type has had its DDL applied or been
\* validated, only the plan of that release type was imported, and the UI
\* was not started.
C1_FatalValidationTerminates ==
    violation # "none" =>
        /\ pc \in {"finally", "exited"}
        /\ cause = "fatal_validation"
        /\ release_type = violation
        /\ \A r \in Later(violation) : r \notin ddl_applied /\ r \notin validated
        /\ attempted = table_details
        /\ ~ui_started

C1_Witness ==
    /\ pc = "exited"
    /\ violation = "Full"
    /\ fs["Snapshot"] # <<>>

\* C2: a run that has ended has no open session, and a run that ended after
\* the session was opened (normal completion, nothing imported, the fatal
\* validation, an exception while building a plan or at the prompt) has
\* closed it.
C2_SessionClosedOnEveryExit ==
    pc = "exited" =>
        /\ session # "open"
        /\ cause \in {"completed", "nothing_imported", "fatal_validation",
                      "TypeError", "EOFError"} => session = "closed"

C2_Witness ==
    /\ pc = "exited"
    /\ cause = "TypeError"
    /\ session = "closed"

\* C3: while a plan is imported the entries attempted are the first idx
\* entries of the plan, one outcome each, and whenever the run is past the
\* import loop, by any path, the entries attempted are exactly the plan, in
\* plan order, whatever the outcomes were.
C3_EveryEntryAttemptedOnce ==
    /\ pc = "import" =>
          /\ idx <= Len(table_details)
          /\ attempted = SubSeq(table_details, 1, idx)
          /\ Len(outcomes) = idx
    /\ pc \notin {"ddl", "import"} =>
          /\ attempted = table_details
          /\ Len(outcomes) = Len(table_details)

C3_Witness ==
    /\ pc = "validate"
    /\ Len(table_details) >= 2
    /\ outcomes[1] = "OtherFailure"
    /\ outcomes[2] = "FormatRejected"
    /\ attempted = table_details

\* C4: in a plan returned by get_table_details every Concept entry whose
\* directory path contains "sct2" comes before every entry produced from a
\* reference-set file.
C4_ConceptBeforeRefsets ==
    (pc = "scanned" /\ cause = "none") =>
        \A i, j \in 1..Len(table_details) :
            ( /\ IsConceptEntry(table_details[i])
              /\ Contains("sct2", table_details[i][2])
              /\ IsRefsetEntry(table_details[j]) ) => i < j

\* C5: a terminology file name with content type T whose country-namespace
\* segment is the literal INT is accepted and gets the table name
\* lowercase(T) + "_" + short code.
C5_IntFilenamesAccepted ==
    pc = "scanned" =>
        \A k \in 1..Len(Walk) : \A t \in ContentTypes, g \in Languages :
            Walk[k][2] = FileName("sct2", t, "", release_type, g, "INT") =>
                <<lower(t) \o "_" \o short_code(release_type), Walk[k][1], Walk[k][2]>>
                    \in Range(table_details)

\* C6 as stated: an accepted reference-set file with the summary capture
\* RefsetDescriptor gets the table name refsetdescriptor, without the short
\* code.
C6_RefsetDescriptorBare ==
    (pc = "scanned" /\ cause = "none") =>
        \A k \in 1..Len(Walk) :
            IsRefsetWithSummary(Walk[k][2], Some("RefsetDescriptor")) =>
                <<"refsetdescriptor", Walk[k][1], Walk[k][2]>> \in Range(table_details)

\* C6 as amended: an accepted reference-set file with the summary capture
\* RefsetDescriptor gets the table name refsetdescriptor_<short code>: the
\* substitution removes "refset" and keeps the short code.
C6_RefsetDescriptorKeepsShortCode ==
    (pc = "scanned" /\ cause = "none") =>
        \A k \in 1..Len(Walk) :
            IsRefsetWithSummary(Walk[k][2], Some("RefsetDescriptor")) =>
                <<"refsetdescriptor_" \o short_code(release_type), Walk[k][1], Walk[k][2]>>
                    \in Range(table_details)

C6_Witness ==
    /\ pc = "scanned"
    /\ release_type = "Delta"
    /\ \E e \in Range(table_details) :
         IsRefsetWithSummary(e[3], Some("RefsetDescriptor"))

\* C7 as stated: an accepted reference-set file with the summary capture
\* Simple gets the table name simple_<short code>.
C7_SimpleContracted ==
    (pc = "scanned" /\ cause = "none") =>
        \A k \in 1..Len(Walk) :
            IsRefsetWithSummary(Walk[k][2], Some("Simple")) =>
                <<"simple_" \o short_code(release_type), Walk[k][1], Walk[k][2]>>
                    \in Range(table_details)

\* C7 as amended: an accepted reference-set file with the summary capture
\* Simple gets the table name simplerefset_<short code>: rule 3 looks for
\* "SimpleRefset" and leaves the lower-case "refset" of the base name alone.
C7_SimpleKeepsRefset ==
    (pc = "scanned" /\ cause = "none") =>
        \A k \in 1..Len(Walk) :
            IsRefsetWithSummary(Walk[k][2], Some("Simple")) =>
                <<"simplerefset_" \o short_code(release_type), Walk[k][1], Walk[k][2]>>
                    \in Range(table_details)

C7_Witness ==
    /\ pc = "scanned"
    /\ release_type = "Full"
    /\ \E e \in Range(table_details) : IsRefsetWithSummary(e[3], Some("Simple"))

\* C8: a run whose package path is empty, or names neither an existing
\* directory nor an existing file, never opens the session, applies no DDL,
\* imports and validates nothing, never starts the UI, and ends with the
\* usage printed.
C8_InvalidPathStopsBeforeSession ==
    (package_location = "" \/ (~isdir(package_location) /\ ~isfile(package_location))) =>
        /\ session = "none"
        /\ ddl_applied = {}
        /\ validated = {}
        /\ attempted = <<>>
        /\ ~ui_started
        /\ pc = "exited" => usage_printed

\* C9: when an accepted reference-set file has no summary capture the scan
\* raises nothing and the plan holds an entry for the file, named
\* lowercase(<content type>refset_<short code>).
C9_SummaryFallback ==
    pc = "scanned" =>
        \A k \in 1..Len(Walk) :
            IsRefsetWithSummary(Walk[k][2], None) =>
                /\ cause = "none"
                /\ <<lower(re_match(release_type, Walk[k][2])[1].g2[1] \o "refset_"
                             \o short_code(release_type)),
                     Walk[k][1], Walk[k][2]>> \in Range(table_details)

\* C10: the fatal exit is taken only when the validation script ran and
\* returned at least one row, and a run that validated something and ended
\* neither by the fatal exit nor by an exception of a later scan has started
\* the UI, also when the scripts could not be executed.
C10_FailedValidationCountsAsPassed ==
    /\ cause = "fatal_validation" => (result # None /\ Len(result[1]) >= 1)
    /\ (result = None /\ validated # {}) => cause # "fatal_validation"
    /\ (pc = "exited" /\ validated # {} /\ cause \notin {"fatal_validation", "TypeError"})
           => ui_started

C10_Witness ==
    /\ pc = "exited"
    /\ result = None
    /\ validated = {"Full", "Snapshot"}
    /\ violation = "none"
    /\ ui_started

====
